---- MODULE Spec2Model ----
(***************************************************************************)
(* watchlog-api: catalogue of movies and series, seasons, and the per-user *)
(* watchlist with the progress reconciliation of series entries.           *)
(*                                                                         *)
(* The database tables are sets of rows.  Every HTTP handler is one action *)
(* (route + service + commit); `last` records the last request and the     *)
(* status code it was answered with.  A second specification, SpecConc,    *)
(* splits the add-to-watchlist handlers at the commit so that two requests *)
(* can interleave between the existence check and the INSERT.              *)
(***************************************************************************)
EXTENDS Integers, FiniteSets, TLC

VARIABLES movies, series, seasons, entries, last, reqs

vars == <<movies, series, seasons, entries, last, reqs>>

(***************************************************************************)
(* Bounds of the model.                                                    *)
(***************************************************************************)
MaxUser == 1
MaxMovies == 1
MaxSeries == 1
MaxSeasonNo == 2
MaxEpisodes == 2
MaxInflight == 2

UserIds == 1..MaxUser
MovieIds == 1..MaxMovies
SeriesIds == 1..MaxSeries
SeasonNumbers == 1..MaxSeasonNo
\* add_season validates nothing about episodes_count: negative counts pass.
EpisodeCounts == (0 - 1)..MaxEpisodes
MaxTotal == MaxSeasonNo * MaxEpisodes
\* watched_episodes values a PATCH may carry: below 0, in range, above any total.
PayloadWatched == (0 - 1)..(MaxTotal + 1)
\* the column default of current_season and current_episode
DefaultCursor == 1
\* the cursor value a PATCH may carry: back to the first season / episode.
PayloadCursor == {DefaultCursor}
\* status values a PATCH may carry ("dropped" stands for any other string: the
\* code treats every value but "watched" alike).
PayloadStatus == {"watched", "dropped"}
Slots == 1..MaxInflight

(***************************************************************************)
(* Helpers.                                                                *)
(***************************************************************************)
RECURSIVE SetMax(_)
SetMax(S) ==
    LET x == CHOOSE y \in S : TRUE
    IN  IF S = {x} THEN x
        ELSE LET m == SetMax(S \ {x}) IN IF x > m THEN x ELSE m

Min2(a, b) == IF a < b THEN a ELSE b
Max2(a, b) == IF a > b THEN a ELSE b

\* Python round(x, 2) of the quotient num/den * 100 for den > 0, in hundredths
\* (round-half-even; no tie occurs for den < 32).
RoundHundredths(num, den) ==
    LET q == (num * 10000) \div den
        r == (num * 10000) % den
    IN  IF 2 * r > den THEN q + 1
        ELSE IF 2 * r < den THEN q
        ELSE IF q % 2 = 0 THEN q ELSE q + 1

\* the next primary key: SQLite's rowid, max + 1
NextId(ids) == IF ids = {} THEN 1 ELSE SetMax(ids) + 1

(***************************************************************************)
(* Payload of PATCH /progress/series/{id}: four optional fields.  A        *)
(* numeric field is absent, carries something int() accepts (v is what     *)
(* int() returns), or carries a value such as "abc" that int() rejects.    *)
(***************************************************************************)
NoInt == [has |-> FALSE, v |-> 0, isint |-> TRUE]
NoStr == [has |-> FALSE, v |-> ""]
IntValue(n) == [has |-> TRUE, v |-> n, isint |-> TRUE]
NotAnInt == [has |-> TRUE, v |-> 0, isint |-> FALSE]
OptInt(S) == {NoInt} \cup {IntValue(n) : n \in S}
OptStr(S) == {NoStr} \cup {[has |-> TRUE, v |-> s] : s \in S}

Payloads ==
    [watched_episodes : OptInt(PayloadWatched),
     current_season   : OptInt(PayloadCursor),
     current_episode  : OptInt(PayloadCursor),
     status           : OptStr(PayloadStatus)]

EmptyPayload ==
    [watched_episodes |-> NoInt, current_season |-> NoInt,
     current_episode |-> NoInt, status |-> NoStr]

\* the payload {watched_episodes: n}
OnlyWatched(n) ==
    [EmptyPayload EXCEPT !.watched_episodes = IntValue(n)]

\* the payload {status: "watched"}
OnlyStatusWatched ==
    [EmptyPayload EXCEPT !.status = [has |-> TRUE, v |-> "watched"]]

\* payloads with a value int() rejects, alone or after a field that is applied
InvalidPayloads ==
    {[EmptyPayload EXCEPT !.watched_episodes = NotAnInt],
     [EmptyPayload EXCEPT !.watched_episodes = IntValue(1),
                          !.current_season = NotAnInt],
     [EmptyPayload EXCEPT !.watched_episodes = IntValue(1),
                          !.current_episode = NotAnInt,
                          !.status = [has |-> TRUE, v |-> "watched"]]}

\* the payloads of SpecAuth, and those of SpecUsers
AuthPayloads == {EmptyPayload, OnlyWatched(1), OnlyStatusWatched}
UserPayloads == AuthPayloads \cup InvalidPayloads

\* int(payload[k]) raises ValueError for some field the payload carries
IntRaises(p) ==
    \/ p.watched_episodes.has /\ ~p.watched_episodes.isint
    \/ p.current_season.has /\ ~p.current_season.isint
    \/ p.current_episode.has /\ ~p.current_episode.isint

(***************************************************************************)
(* models/watch_entry.py                                                   *)
(***************************************************************************)
SeasonsOf(s) == {x \in seasons : x.series_id = s}

RECURSIVE SumEpisodes(_)
SumEpisodes(S) ==
    IF S = {} THEN 0
    ELSE LET x == CHOOSE y \in S : TRUE
         IN  x.episodes_count + SumEpisodes(S \ {x})

\* a WatchEntry whose total_episodes keeps the column default
NewEntryDefaultTotal(u, ct, cid, total) ==
    [user_id |-> u, content_type |-> ct, content_id |-> cid,
     status |-> "pending",
     current_season |-> DefaultCursor, current_episode |-> DefaultCursor,
     watched_episodes |-> 0,
     total_episodes |-> IF ct = "movie" THEN 1 ELSE 0]

\* WatchEntry(...) as progress.py builds it, with the column defaults
NewEntry(u, ct, cid, total) ==
    [user_id |-> u, content_type |-> ct, content_id |-> cid,
     status |-> "pending",
     current_season |-> DefaultCursor, current_episode |-> DefaultCursor,
     watched_episodes |-> 0,
     total_episodes |-> IF ct = "movie" THEN 1 ELSE total]

\* WatchEntry.percentage_watched, in hundredths of a percent
percentage_watched(e) ==
    IF e.status = "watched" THEN 10000
    ELSE IF e.total_episodes = 0 THEN 0
    ELSE LET watched == Min2(e.watched_episodes, e.total_episodes)
         IN  IF e.total_episodes > 0
             THEN RoundHundredths(watched, e.total_episodes)
             ELSE RoundHundredths(0 - watched, 0 - e.total_episodes)

\* mark_as_watched leaving the cursor where it is
mark_as_watched_keep_cursor(e) ==
    LET e1 == [e EXCEPT !.status = "watched"]
    IN  IF e.content_type = "movie"
        THEN [e1 EXCEPT !.watched_episodes = 1]
        ELSE IF e.content_type = "series" /\ e.total_episodes # 0
        THEN [e1 EXCEPT !.watched_episodes = e.total_episodes]
        ELSE e1

\* WatchEntry.mark_as_watched
mark_as_watched(e) ==
    LET e1 == [e EXCEPT !.status = "watched"]
    IN  IF e.content_type = "movie"
        THEN [e1 EXCEPT !.watched_episodes = 1]
        ELSE IF e.content_type = "series" /\ e.total_episodes # 0
        THEN LET e2 == [e1 EXCEPT !.watched_episodes = e.total_episodes]
                 ss == SeasonsOf(e.content_id)
             IN  IF ss # {}
                 THEN LET last_season == SetMax({s.number : s \in ss})
                          s == CHOOSE x \in ss : x.number = last_season
                      IN  [e2 EXCEPT !.current_season = last_season,
                                     !.current_episode = s.episodes_count]
                 ELSE e2
        ELSE e1

(***************************************************************************)
(* api/progress.py: ProgressService                                        *)
(***************************************************************************)
EntriesFor(u, ct, cid) ==
    {e \in entries : e.user_id = u /\ e.content_type = ct /\ e.content_id = cid}

\* the clamp without its lower limit
ClampWatchedNoFloor(w, total) == Min2(w, total)

\* the clamp without its upper limit
ClampWatchedNoCeiling(w, total) == Max2(0, w)

\* line 114: max(0, min(watched, entry.total_episodes or 0))
ClampWatched(w, total) == Max2(0, Min2(w, total))

\* the recomputation leaving a status it does not know
RecomputeKnownStatus(e) ==
    IF e.status \in {"pending", "watching"}
    THEN IF e.watched_episodes >= e.total_episodes /\ e.total_episodes > 0
         THEN mark_as_watched(e)
         ELSE IF e.watched_episodes > 0
         THEN [e EXCEPT !.status = "watching"]
         ELSE [e EXCEPT !.status = "pending"]
    ELSE e

\* the recomputation completing only above the total
RecomputeStrict(e) ==
    IF e.status # "watched"
    THEN IF e.watched_episodes > e.total_episodes /\ e.total_episodes > 0
         THEN mark_as_watched(e)
         ELSE IF e.watched_episodes > 0
         THEN [e EXCEPT !.status = "watching"]
         ELSE [e EXCEPT !.status = "pending"]
    ELSE e

\* lines 128-135: the recomputation of the status
Recompute(e) ==
    IF e.status # "watched"
    THEN IF e.watched_episodes >= e.total_episodes /\ e.total_episodes > 0
         THEN mark_as_watched(e)
         ELSE IF e.watched_episodes > 0
         THEN [e EXCEPT !.status = "watching"]
         ELSE [e EXCEPT !.status = "pending"]
    ELSE e

\* lines 110-135: the entry after the payload was applied
ApplyPayload(e, p) ==
    LET e1 == IF p.watched_episodes.has
              THEN [e EXCEPT !.watched_episodes =
                        ClampWatched(p.watched_episodes.v, e.total_episodes)]
              ELSE e
        e2 == IF p.current_season.has
              THEN [e1 EXCEPT !.current_season = p.current_season.v]
              ELSE e1
        e3 == IF p.current_episode.has
              THEN [e2 EXCEPT !.current_episode = p.current_episode.v]
              ELSE e2
        e4 == IF p.status.has
              THEN IF p.status.v = "watched"
                   THEN mark_as_watched(e3)
                   ELSE [e3 EXCEPT !.status = p.status.v]
              ELSE e3
    IN  Recompute(e4)

\* the X-User-Id header of a request: absent, some text that is no integer
\* literal, or the decimal literal of v
NoHeader == [present |-> FALSE, numeric |-> FALSE, v |-> 0]
TextHeader == [present |-> TRUE, numeric |-> FALSE, v |-> 0]
IntHeader(n) == [present |-> TRUE, numeric |-> TRUE, v |-> n]

\* the last request: operation, user id the handler ran with (0: none), path
\* id, season number (add_season) or number of watch entries the cascade
\* removed (delete), PATCH payload, status code of the response,
\* X-User-Id header (a request that reached a progress handler carried the
\* literal of its user id) and the list a GET answered
Req(op, u, cid, arg, p, code) ==
    [op |-> op, user |-> u, cid |-> cid, arg |-> arg, payload |-> p, code |-> code,
     hdr |-> IF u = 0 THEN NoHeader ELSE IntHeader(u), body |-> {}]

\* a request slot of SpecConc: where the request is and what it carries
Slot(pc, op, u, cid, total, code) ==
    [pc |-> pc, op |-> op, user |-> u, cid |-> cid, total |-> total, code |-> code]

IdleSlot == Slot("idle", "none", 0, 0, 0, 0)

Init ==
    /\ movies = {}
    /\ series = {}
    /\ seasons = {}
    /\ entries = {}
    /\ last = Req("none", 0, 0, 0, EmptyPayload, 0)
    /\ reqs = [r \in Slots |-> IdleSlot]

\* POST /movies: MovieService.create_movie
CreateMovie(hasTitle) ==
    /\ Cardinality(movies) < MaxMovies
    /\ IF hasTitle
       THEN /\ movies' = movies \cup {NextId(movies)}
            /\ last' = Req("create_movie", 0, NextId(movies), 0, EmptyPayload, 201)
       ELSE /\ movies' = movies
            /\ last' = Req("create_movie", 0, 0, 0, EmptyPayload, 400)
    /\ UNCHANGED <<series, seasons, entries, reqs>>

\* POST /series: SeriesService.create_series
CreateSeries(hasRequired) ==
    /\ Cardinality(series) < MaxSeries
    /\ IF hasRequired
       THEN /\ series' = series \cup {NextId(series)}
            /\ last' = Req("create_series", 0, NextId(series), 0, EmptyPayload, 201)
       ELSE /\ series' = series
            /\ last' = Req("create_series", 0, 0, 0, EmptyPayload, 400)
    /\ UNCHANGED <<movies, seasons, entries, reqs>>

\* the UNIQUE constraint uq_series_season_number, checked by the INSERT
SeasonUniqueOk(s, n) == \A x \in seasons : ~(x.series_id = s /\ x.number = n)

\* add_season without the lookup of the number
AddSeasonCheckNoLookup(s, complete, n) ==
    IF s \notin series THEN "no existe"
    ELSE IF ~complete THEN "obligatorios"
    ELSE "ok"

\* SeriesService.add_season, up to the commit: the error raised, or "ok"
AddSeasonCheck(s, complete, n) ==
    IF s \notin series THEN "no existe"
    ELSE IF ~complete THEN "obligatorios"
    ELSE IF \E x \in seasons : x.series_id = s /\ x.number = n THEN "ya existe"
    ELSE "ok"

\* the route add_season: the status code of a ValueError
AddSeasonErrorCode(msg) == IF msg = "no existe" THEN 404 ELSE 400

\* POST /series/{id}/seasons: the payload carries both fields (complete) or not
AddSeason(s, complete, n, c) ==
    LET chk == AddSeasonCheck(s, complete, n)
        arg == IF complete THEN n ELSE 0
    IN  /\ IF chk # "ok"
           THEN /\ seasons' = seasons
                /\ last' = Req("add_season", 0, s, arg, EmptyPayload, AddSeasonErrorCode(chk))
           ELSE IF ~SeasonUniqueOk(s, n)
           THEN \* IntegrityError, caught by `except Exception`
                /\ seasons' = seasons
                /\ last' = Req("add_season", 0, s, arg, EmptyPayload, 500)
           ELSE /\ seasons' = seasons \cup
                       {[series_id |-> s, number |-> n, episodes_count |-> c]}
                /\ last' = Req("add_season", 0, s, arg, EmptyPayload, 201)
        /\ UNCHANGED <<movies, series, entries, reqs>>

\* the UNIQUE constraint uq_user_content, checked by the INSERT
EntryUniqueOk(u, ct, cid) ==
    \A e \in entries : ~(e.user_id = u /\ e.content_type = ct /\ e.content_id = cid)

\* add_movie without the lookup of the entry
AddMovieCheckNoLookup(u, m) ==
    IF m \notin movies THEN "no encontrada" ELSE "ok"

\* ProgressService.add_movie, up to the commit: the error raised, or "ok"
AddMovieCheck(u, m) ==
    IF m \notin movies THEN "no encontrada"
    ELSE IF EntriesFor(u, "movie", m) # {} THEN "ya esta"
    ELSE "ok"

\* ProgressService.add_series, up to the commit: the error raised, or "ok"
AddSeriesCheck(u, s) ==
    IF s \notin series THEN "no encontrada"
    ELSE IF EntriesFor(u, "series", s) # {} THEN "ya esta"
    ELSE "ok"

\* the routes add_*_to_watchlist: the status code of a ValueError
WatchlistErrorCode(msg) == IF msg = "no encontrada" THEN 404 ELSE 409

\* db.session.add(entry); db.session.commit(): the entries after it and the code
CommitEntry(u, ct, cid, total) ==
    IF EntryUniqueOk(u, ct, cid)
    THEN [entries |-> entries \cup
             {NewEntry(u, ct, cid, total)},
          code |-> 201]
    ELSE \* IntegrityError, caught by `except Exception`
         [entries |-> entries, code |-> 500]

\* POST /watchlist/movies/{id}
AddMovie(u, m) ==
    LET chk == AddMovieCheck(u, m)
        done == CommitEntry(u, "movie", m, 1)
    IN  /\ IF chk # "ok"
           THEN /\ entries' = entries
                /\ last' = Req("add_movie", u, m, 0, EmptyPayload, WatchlistErrorCode(chk))
           ELSE /\ entries' = done.entries
                /\ last' = Req("add_movie", u, m, 0, EmptyPayload, done.code)
        /\ UNCHANGED <<movies, series, seasons, reqs>>

\* POST /watchlist/series/{id}
AddSeries(u, s) ==
    LET chk == AddSeriesCheck(u, s)
        done == CommitEntry(u, "series", s, SumEpisodes(SeasonsOf(s)))
    IN  /\ IF chk # "ok"
           THEN /\ entries' = entries
                /\ last' = Req("add_series", u, s, 0, EmptyPayload, WatchlistErrorCode(chk))
           ELSE /\ entries' = done.entries
                /\ last' = Req("add_series", u, s, 0, EmptyPayload, done.code)
        /\ UNCHANGED <<movies, series, seasons, reqs>>

\* PATCH /progress/series/{id}: route and ProgressService.update_series_progress
UpdateSeriesProgress(u, s, p) ==
    /\ IF p = EmptyPayload
       THEN /\ entries' = entries
            /\ last' = Req("update", u, s, 0, p, 400)
       ELSE IF EntriesFor(u, "series", s) = {}
       THEN /\ entries' = entries
            /\ last' = Req("update", u, s, 0, p, 404)
       ELSE IF IntRaises(p)
       THEN \* ValueError before the commit: the route's `except ValueError`
            \* answers 404 and the request's session is discarded
            /\ entries' = entries
            /\ last' = Req("update", u, s, 0, p, 404)
       ELSE LET e == CHOOSE x \in EntriesFor(u, "series", s) : TRUE
            IN  /\ entries' = (entries \ {e}) \cup {ApplyPayload(e, p)}
                /\ last' = Req("update", u, s, 0, p, 200)
    /\ UNCHANGED <<movies, series, seasons, reqs>>

\* the foreign keys WatchEntry.__init__ fills in (0: NULL)
movie_content_id(e) == IF e.content_type = "movie" THEN e.content_id ELSE 0
series_content_id(e) == IF e.content_type = "series" THEN e.content_id ELSE 0

\* a delete that removes the movie row only
DeleteMovieNoCascade(m) ==
    /\ IF m \notin movies
       THEN /\ UNCHANGED <<movies, entries>>
            /\ last' = Req("delete_movie", 0, m, 0, EmptyPayload, 404)
       ELSE /\ movies' = movies \ {m}
            /\ entries' = entries
            /\ last' = Req("delete_movie", 0, m, 0, EmptyPayload, 204)
    /\ UNCHANGED <<series, seasons, reqs>>

\* DELETE /movies/{id}: the session deletes the movie and, by the cascade of
\* Movie.watch_entries, the entries whose movie_content_id is the movie
DeleteMovie(m) ==
    /\ IF m \notin movies
       THEN /\ UNCHANGED <<movies, entries>>
            /\ last' = Req("delete_movie", 0, m, 0, EmptyPayload, 404)
       ELSE /\ movies' = movies \ {m}
            /\ entries' = {e \in entries : movie_content_id(e) # m}
            /\ last' = Req("delete_movie", 0, m,
                           Cardinality({e \in entries : movie_content_id(e) = m}),
                           EmptyPayload, 204)
    /\ UNCHANGED <<series, seasons, reqs>>

\* DELETE /series/{id}: the cascades of Series.seasons and Series.watch_entries
DeleteSeries(s) ==
    /\ IF s \notin series
       THEN /\ UNCHANGED <<series, seasons, entries>>
            /\ last' = Req("delete_series", 0, s, 0, EmptyPayload, 404)
       ELSE /\ series' = series \ {s}
            /\ seasons' = {x \in seasons : x.series_id # s}
            /\ entries' = {e \in entries : series_content_id(e) # s}
            /\ last' = Req("delete_series", 0, s,
                           Cardinality({e \in entries : series_content_id(e) = s}),
                           EmptyPayload, 204)
    /\ UNCHANGED <<movies, reqs>>

(***************************************************************************)
(* The add-to-watchlist handlers split at the commit (SpecConc).           *)
(***************************************************************************)
\* add_movie lines 50-65: the lookups, up to the INSERT
BeginAddMovie(r, u, m) ==
    /\ reqs[r].pc = "idle"
    /\ LET chk == AddMovieCheck(u, m)
       IN  reqs' = [reqs EXCEPT ![r] =
               IF chk # "ok"
               THEN Slot("failed", "add_movie", u, m, 0, WatchlistErrorCode(chk))
               ELSE Slot("checked", "add_movie", u, m, 1, 0)]
    /\ UNCHANGED <<movies, series, seasons, entries, last>>

\* add_series lines 73-95: the lookups and the sum, up to the INSERT
BeginAddSeries(r, u, s) ==
    /\ reqs[r].pc = "idle"
    /\ LET chk == AddSeriesCheck(u, s)
       IN  reqs' = [reqs EXCEPT ![r] =
               IF chk # "ok"
               THEN Slot("failed", "add_series", u, s, 0, WatchlistErrorCode(chk))
               ELSE Slot("checked", "add_series", u, s, SumEpisodes(SeasonsOf(s)), 0)]
    /\ UNCHANGED <<movies, series, seasons, entries, last>>

\* lines 66-68 / 96-98 and the route's except clauses: the commit of a request
CommitAdd(r) ==
    /\ reqs[r].pc = "checked"
    /\ LET q == reqs[r]
           ct == IF q.op = "add_movie" THEN "movie" ELSE "series"
           done == CommitEntry(q.user, ct, q.cid, q.total)
       IN  /\ entries' = done.entries
           /\ reqs' = [reqs EXCEPT ![r] =
                  Slot("committed", q.op, q.user, q.cid, q.total, done.code)]
    /\ UNCHANGED <<movies, series, seasons, last>>

\* the integers an X-User-Id header spells out
HeaderInts == (0 - 1)..MaxUser
Headers == {NoHeader, TextHeader} \cup {IntHeader(n) : n \in HeaderInts}

\* request.headers.get("X-User-Id", type=int): None when the header is absent
\* or int() raises ValueError
HeaderGetInt(h) ==
    IF h.present /\ h.numeric
    THEN [none |-> FALSE, v |-> h.v]
    ELSE [none |-> TRUE, v |-> 0]

\* require_user_id: `if not user_id: abort(401)`
require_user_id(h) ==
    LET user_id == HeaderGetInt(h)
    IN  [ok |-> ~(user_id.none \/ user_id.v = 0), user_id |-> user_id.v]

\* abort(401): the handler does not run
Unauthorized(op, h, cid, p) ==
    /\ last' = [Req(op, 0, cid, 0, p, 401) EXCEPT !.hdr = h]
    /\ UNCHANGED <<movies, series, seasons, entries, reqs>>

\* WatchEntry.to_dict (without id and updated_at)
to_dict(e) ==
    [user_id |-> e.user_id, content_type |-> e.content_type,
     content_id |-> e.content_id, status |-> e.status,
     current_season |-> e.current_season, current_episode |-> e.current_episode,
     watched_episodes |-> e.watched_episodes, total_episodes |-> e.total_episodes,
     percentage_watched |-> percentage_watched(e)]

\* a listing that forgets the filter
list_watchlist_all(u) == {to_dict(e) : e \in entries}

\* ProgressService.list_watchlist, as the set of rows it returns
list_watchlist(u) == {to_dict(e) : e \in {x \in entries : x.user_id = u}}

\* GET /me/watchlist
GetMyWatchlist(h) ==
    LET auth == require_user_id(h)
    IN  IF ~auth.ok
        THEN Unauthorized("list", h, 0, EmptyPayload)
        ELSE /\ last' = [Req("list", auth.user_id, 0, 0, EmptyPayload, 200)
                            EXCEPT !.body = list_watchlist(auth.user_id)]
             /\ UNCHANGED <<movies, series, seasons, entries, reqs>>

\* POST /watchlist/movies/{id} behind require_user_id
AddMovieToWatchlist(h, m) ==
    LET auth == require_user_id(h)
    IN  IF ~auth.ok
        THEN Unauthorized("add_movie", h, m, EmptyPayload)
        ELSE AddMovie(auth.user_id, m)

\* POST /watchlist/series/{id} behind require_user_id
AddSeriesToWatchlist(h, s) ==
    LET auth == require_user_id(h)
    IN  IF ~auth.ok
        THEN Unauthorized("add_series", h, s, EmptyPayload)
        ELSE AddSeries(auth.user_id, s)

\* PATCH /progress/series/{id} behind require_user_id
PatchSeriesProgress(h, s, p) ==
    LET auth == require_user_id(h)
    IN  IF ~auth.ok
        THEN Unauthorized("update", h, s, p)
        ELSE UpdateSeriesProgress(auth.user_id, s, p)

Next ==
    \/ \E b \in BOOLEAN : CreateMovie(b)
    \/ \E b \in BOOLEAN : CreateSeries(b)
    \/ \E s \in SeriesIds, b \in BOOLEAN, n \in SeasonNumbers, c \in EpisodeCounts :
          AddSeason(s, b, n, c)
    \/ \E u \in UserIds, m \in MovieIds : AddMovie(u, m)
    \/ \E u \in UserIds, s \in SeriesIds : AddSeries(u, s)
    \/ \E u \in UserIds, s \in SeriesIds, p \in Payloads : UpdateSeriesProgress(u, s, p)
    \/ \E m \in MovieIds : DeleteMovie(m)
    \/ \E s \in SeriesIds : DeleteSeries(s)

Spec == Init /\ [][Next]_vars

NextConc ==
    \/ \E b \in BOOLEAN : CreateMovie(b)
    \/ \E b \in BOOLEAN : CreateSeries(b)
    \/ \E s \in SeriesIds, b \in BOOLEAN, n \in SeasonNumbers, c \in EpisodeCounts :
          AddSeason(s, b, n, c)
    \/ \E r \in Slots, u \in UserIds, m \in MovieIds : BeginAddMovie(r, u, m)
    \/ \E r \in Slots, u \in UserIds, s \in SeriesIds : BeginAddSeries(r, u, s)
    \/ \E r \in Slots : CommitAdd(r)

SpecConc == Init /\ [][NextConc]_vars

\* the progress routes as HTTP sees them, with any X-User-Id header
NextAuth ==
    \/ \E b \in BOOLEAN : CreateMovie(b)
    \/ \E b \in BOOLEAN : CreateSeries(b)
    \/ \E s \in SeriesIds, b \in BOOLEAN, n \in SeasonNumbers :
          AddSeason(s, b, n, MaxEpisodes)
    \/ \E h \in Headers : GetMyWatchlist(h)
    \/ \E h \in Headers, m \in MovieIds : AddMovieToWatchlist(h, m)
    \/ \E h \in Headers, s \in SeriesIds : AddSeriesToWatchlist(h, s)
    \/ \E h \in Headers, s \in SeriesIds, p \in AuthPayloads :
          PatchSeriesProgress(h, s, p)
    \/ \E m \in MovieIds : DeleteMovie(m)
    \/ \E s \in SeriesIds : DeleteSeries(s)

SpecAuth == Init /\ [][NextAuth]_vars

\* several users, each sending its own id, and payloads int() may reject
ManyUserIds == 1..(MaxUser + 1)

NextUsers ==
    \/ \E b \in BOOLEAN : CreateMovie(b)
    \/ \E b \in BOOLEAN : CreateSeries(b)
    \/ \E s \in SeriesIds, b \in BOOLEAN, n \in SeasonNumbers :
          AddSeason(s, b, n, MaxEpisodes)
    \/ \E u \in ManyUserIds : GetMyWatchlist(IntHeader(u))
    \/ \E u \in ManyUserIds, m \in MovieIds : AddMovieToWatchlist(IntHeader(u), m)
    \/ \E u \in ManyUserIds, s \in SeriesIds : AddSeriesToWatchlist(IntHeader(u), s)
    \/ \E u \in ManyUserIds, s \in SeriesIds, p \in UserPayloads :
          PatchSeriesProgress(IntHeader(u), s, p)
    \/ \E m \in MovieIds : DeleteMovie(m)
    \/ \E s \in SeriesIds : DeleteSeries(s)

SpecUsers == Init /\ [][NextUsers]_vars

(***************************************************************************)
(* Properties.                                                             *)
(***************************************************************************)
\* the series entries the last request addressed
LastEntries == EntriesFor(last.user, "series", last.cid)

LastUpdateOk == last.op = "update" /\ last.code = 200

\* the cursor of entry e is at the last episode of the last season of its series
CursorAtEnd(e) ==
    LET ss == SeasonsOf(e.content_id)
    IN  \E s \in ss :
           /\ \A x \in ss : x.number <= s.number
           /\ e.current_season = s.number
           /\ e.current_episode = s.episodes_count

\* C1 (as claimed): after a successful update_series_progress with payload p,
\* a second call with the same p leaves status, watched_episodes,
\* current_season and current_episode as the first call left them.
C1_UpdateIdempotent ==
    LastUpdateOk => \A e \in LastEntries : ApplyPayload(e, last.payload) = e

\* C2 (as claimed): percentage_watched is 100.0 exactly for the entries whose
\* status is "watched".
C2_FullIffWatched ==
    \A e \in entries : (percentage_watched(e) = 10000) <=> (e.status = "watched")

\* C3: percentage_watched of every stored entry lies in [0, 100].
C3_PercentageInRange ==
    \A e \in entries : percentage_watched(e) >= 0 /\ percentage_watched(e) <= 10000

C3_Witness ==
    /\ LastUpdateOk
    /\ \E e \in LastEntries :
          /\ e.status = "watching"
          /\ e.watched_episodes = 2 /\ e.total_episodes = 3
          /\ percentage_watched(e) = 6667

\* C4 (as claimed): when two add-to-watchlist requests for the same user and
\* content both passed the existence check and both finished, one entry is
\* stored, one request got 201 and the other 409.
C4_LoserGetsConflict ==
    \A r1, r2 \in Slots :
        (/\ r1 # r2
         /\ reqs[r1].pc = "committed" /\ reqs[r2].pc = "committed"
         /\ reqs[r1].op = reqs[r2].op
         /\ reqs[r1].user = reqs[r2].user
         /\ reqs[r1].cid = reqs[r2].cid)
        => /\ Cardinality(EntriesFor(reqs[r1].user,
                   IF reqs[r1].op = "add_movie" THEN "movie" ELSE "series",
                   reqs[r1].cid)) = 1
           /\ {reqs[r1].code, reqs[r2].code} = {201, 409}

UniqueEntries ==
    \A e1, e2 \in entries :
        (e1.user_id = e2.user_id /\ e1.content_type = e2.content_type
         /\ e1.content_id = e2.content_id) => e1 = e2

\* C5: there is at most one entry per (user_id, content_type, content_id), and
\* an add_movie / add_series request for a pair that already has an entry is
\* answered 409 and changes no entry.
C5_SecondAddConflicts ==
    [][/\ UniqueEntries'
       /\ (last'.op = "add_movie" /\ EntriesFor(last'.user, "movie", last'.cid) # {})
             => (last'.code = 409 /\ entries' = entries)
       /\ (last'.op = "add_series" /\ EntriesFor(last'.user, "series", last'.cid) # {})
             => (last'.code = 409 /\ entries' = entries)]_vars

C5_Witness ==
    /\ last.op \in {"add_movie", "add_series"}
    /\ last.code = 409
    /\ Cardinality(entries) = 2
    /\ EntriesFor(last.user, IF last.op = "add_movie" THEN "movie" ELSE "series",
                  last.cid) # {}

UniqueSeasons ==
    \A x, y \in seasons :
        (x.series_id = y.series_id /\ x.number = y.number) => x = y

\* the step is an add_season request with both fields, for an existing series
\* and a number that series already has
DuplicateSeasonStep ==
    /\ last'.op = "add_season"
    /\ last'.arg \in SeasonNumbers
    /\ \E x \in seasons : x.series_id = last'.cid /\ x.number = last'.arg

C7_ExplicitCompletion ==
    (LastUpdateOk /\ last.payload.status.has /\ last.payload.status.v = "watched")
    => \A e \in LastEntries :
          /\ e.status = "watched"
          /\ e.watched_episodes = e.total_episodes
          /\ SeasonsOf(e.content_id) # {} => CursorAtEnd(e)

\* C7 (amended): as C7, with the cursor moved whenever the series has seasons
\* and the entry's total_episodes is not 0.
C7_ExplicitCompletionKnownTotal ==
    (LastUpdateOk /\ last.payload.status.has /\ last.payload.status.v = "watched")
    => \A e \in LastEntries :
          /\ e.status = "watched"
          /\ e.watched_episodes = e.total_episodes
          /\ (SeasonsOf(e.content_id) # {} /\ e.total_episodes # 0) => CursorAtEnd(e)

C7_Witness ==
    /\ LastUpdateOk
    /\ last.payload.status.has /\ last.payload.status.v = "watched"
    /\ last.payload.current_season.has /\ last.payload.current_episode.has
    /\ last.payload.watched_episodes.has
    /\ \E e \in LastEntries :
          /\ e.total_episodes > last.payload.watched_episodes.v
          /\ last.payload.watched_episodes.v > 0
          /\ e.watched_episodes = e.total_episodes
          /\ CursorAtEnd(e)
          /\ e.current_season # last.payload.current_season.v
          /\ e.current_episode # last.payload.current_episode.v

\* C8 (as claimed): after PATCH {watched_episodes: n} on an entry with
\* total_episodes = T > 0 and 0 < n < T, the status is "watching" and
\* percentage_watched is n / T * 100 rounded to two decimals.
C8_PartialProgress ==
    \A n \in PayloadWatched :
        (LastUpdateOk /\ last.payload = OnlyWatched(n))
        => \A e \in LastEntries :
              (e.total_episodes > 0 /\ 0 < n /\ n < e.total_episodes)
              => /\ e.status = "watching"
                 /\ percentage_watched(e) = RoundHundredths(n, e.total_episodes)

NoNegativeSeason(s) == \A x \in SeasonsOf(s) : x.episodes_count >= 0

\* the step is the PATCH {watched_episodes: total_episodes} that directly
\* follows the add_series which created entry e, for a series with seasons
CompletionAfterAdd(e) ==
    /\ last.op = "add_series" /\ last.code = 201
    /\ e \in LastEntries
    /\ SeasonsOf(last.cid) # {}
    /\ last'.op = "update"
    /\ last'.user = last.user /\ last'.cid = last.cid
    /\ last'.payload = OnlyWatched(e.total_episodes)

\* what C9 states of that step: the entry was created pending with the sum of
\* the seasons' episodes, and comes out watched with the cursor at the end
CompletionResult(e) ==
    /\ e.total_episodes = SumEpisodes(SeasonsOf(e.content_id))
    /\ e.status = "pending"
    /\ last'.code = 200
    /\ \A f \in EntriesFor(e.user_id, "series", e.content_id)' :
          /\ f.status = "watched"
          /\ f.watched_episodes = e.total_episodes
          /\ f.total_episodes = e.total_episodes
          /\ CursorAtEnd(f)'

\* C9 (as claimed): for a series with seasons add_series creates a pending
\* entry with total_episodes = sum of episodes_count, and a following PATCH
\* {watched_episodes: total_episodes} makes it watched with watched_episodes =
\* total_episodes and the cursor at the last episode of the last season.
\* Stated for the series none of whose seasons has a negative episodes_count,
\* so that a violation does not rest on add_season accepting one.
C9_AutomaticCompletion ==
    [][\A e \in entries :
          (CompletionAfterAdd(e) /\ NoNegativeSeason(e.content_id))
          => CompletionResult(e)]_vars

\* C9 (amended): as C9, for a series whose seasons' episodes_count sum to more
\* than 0.
C9_AutomaticCompletionPositive ==
    [][\A e \in entries :
          (CompletionAfterAdd(e) /\ SumEpisodes(SeasonsOf(e.content_id)) > 0)
          => CompletionResult(e)]_vars

C9_Witness ==
    /\ LastUpdateOk
    /\ Cardinality(SeasonsOf(last.cid)) = MaxSeasonNo
    /\ \E e \in LastEntries :
          /\ last.payload = OnlyWatched(e.total_episodes)
          /\ e.total_episodes = SumEpisodes(SeasonsOf(e.content_id))
          /\ e.total_episodes > MaxEpisodes
          /\ e.status = "watched"
          /\ e.watched_episodes = e.total_episodes
          /\ CursorAtEnd(e)
          /\ e.current_season = MaxSeasonNo

\* the value C10 states for a payload value w and a total
ClaimedClamp(w, total) == IF w > total THEN total ELSE IF w < 0 THEN 0 ELSE w

\* C10 (as claimed): a PATCH carrying the integer watched_episodes = w is
\* never rejected and stores total_episodes when w > total_episodes, 0 when
\* w < 0 and w otherwise.  Stated for the entries whose total_episodes is not
\* negative, so that a violation does not rest on add_season accepting a
\* negative episodes_count.
C10_Clamping ==
    (last.op = "update" /\ last.payload.watched_episodes.has /\ LastEntries # {})
    => /\ last.code = 200
       /\ \A e \in LastEntries :
             e.total_episodes >= 0
             => e.watched_episodes =
                   ClaimedClamp(last.payload.watched_episodes.v, e.total_episodes)

\* C10 (amended): a PATCH carrying the integer watched_episodes = w is never
\* rejected and stores max(0, min(w, total_episodes)), that is total_episodes
\* when w > total_episodes >= 0, 0 when w < 0 or total_episodes < 0, and w
\* otherwise; unless the payload also carries status "watched" and
\* total_episodes is not 0, when it stores total_episodes.
C10_ClampingUnlessMarked ==
    (last.op = "update" /\ last.payload.watched_episodes.has /\ LastEntries # {})
    => /\ last.code = 200
       /\ \A e \in LastEntries :
             LET w == last.payload.watched_episodes.v
                 T == e.total_episodes
             IN  e.watched_episodes =
                    IF last.payload.status.has /\ last.payload.status.v = "watched"
                       /\ T # 0
                    THEN T
                    ELSE IF T < 0 \/ w < 0 THEN 0
                    ELSE IF w > T THEN T
                    ELSE w

C10_Witness ==
    /\ LastUpdateOk
    /\ last.payload.watched_episodes.has
    /\ ~last.payload.status.has
    /\ \E e \in LastEntries :
          /\ e.total_episodes > 1
          /\ last.payload.watched_episodes.v > e.total_episodes
          /\ e.watched_episodes = e.total_episodes

\* the entry a step left in place of e, if the step kept it
SameEntryAfter(e) ==
    {f \in entries' : /\ f.user_id = e.user_id
                      /\ f.content_type = e.content_type
                      /\ f.content_id = e.content_id}

\* C11: a series entry gets total_episodes = the sum of episodes_count over the
\* seasons the series has when add_series runs (0 with no season), and no
\* later add_season or update_series_progress changes the total_episodes of
\* an entry.
C11_TotalFrozen ==
    [][ /\ (last'.op = "add_series" /\ last'.code = 201)
           => \E e \in entries' \ entries :
                 /\ e.user_id = last'.user
                 /\ e.content_type = "series"
                 /\ e.content_id = last'.cid
                 /\ e.total_episodes = SumEpisodes(SeasonsOf(last'.cid))
                 /\ entries' = entries \cup {e}
        /\ (last'.op \in {"add_season", "update"})
           => \A e \in entries :
                 /\ SameEntryAfter(e) # {}
                 /\ \A f \in SameEntryAfter(e) : f.total_episodes = e.total_episodes
      ]_vars

\* a season was just added to a series that an entry already tracks: the
\* entry's total is no longer the sum over the series' seasons
C11_Witness ==
    /\ last.op = "add_season"
    /\ last.code = 201
    /\ \E e \in entries :
          /\ e.content_type = "series"
          /\ e.content_id = last.cid
          /\ e.total_episodes > 0
          /\ SumEpisodes(SeasonsOf(last.cid)) > e.total_episodes

\* the operations behind require_user_id
ProgressOps == {"list", "add_movie", "add_series", "update"}

\* the header spells a positive integer
PositiveHeader(h) == h.present /\ h.numeric /\ h.v > 0

\* C12: every progress endpoint runs its operation only for a positive integer
\* X-User-Id; a missing, non-numeric, zero or negative one is answered 401 and
\* changes nothing (so no entry of a non-positive user is ever stored).
C12_PositiveUserOnly ==
    /\ (last.op \in ProgressOps /\ ~PositiveHeader(last.hdr)) => last.code = 401
    /\ \A e \in entries : e.user_id > 0

\* every Season row and every WatchEntry row refers to a catalogue row
NoDanglingReference ==
    /\ \A x \in seasons : x.series_id \in series
    /\ \A e \in entries :
          /\ e.content_type = "movie" => e.content_id \in movies
          /\ e.content_type = "series" => e.content_id \in series

\* C13: after any sequence of create, add_season, add-to-watchlist, update and
\* delete requests every Season refers to an existing Series and every
\* WatchEntry to an existing Movie or Series; a successful delete_movie leaves
\* no WatchEntry of that movie, a successful delete_series no Season and no
\* WatchEntry of that series.
C13_CascadeDelete ==
    /\ NoDanglingReference
    /\ (last.op = "delete_movie" /\ last.code = 204)
       => /\ last.cid \notin movies
          /\ \A e \in entries : ~(e.content_type = "movie" /\ e.content_id = last.cid)
    /\ (last.op = "delete_series" /\ last.code = 204)
       => /\ last.cid \notin series
          /\ SeasonsOf(last.cid) = {}
          /\ \A e \in entries : ~(e.content_type = "series" /\ e.content_id = last.cid)

\* a movie that was on a watchlist has just been deleted, while a series with
\* a season is still tracked
C13_Witness ==
    /\ last.op = "delete_movie"
    /\ last.code = 204
    /\ last.arg > 0
    /\ \E e \in entries : e.content_type = "series" /\ SeasonsOf(e.content_id) # {}

\* C14: a PATCH for an entry that exists, whose payload carries a value that
\* is no integer for watched_episodes, current_season or current_episode, is
\* answered 400 and leaves the stored entries as they were, also when an
\* earlier field of the payload was valid.
C14_InvalidValueIs400 ==
    [][ (/\ last'.op = "update"
         /\ last'.code # 401
         /\ IntRaises(last'.payload)
         /\ EntriesFor(last'.user, "series", last'.cid) # {})
        => /\ last'.code = 400
           /\ entries' = entries
      ]_vars

\* C15: in every reachable state a series entry whose status is "watched" and
\* whose total_episodes is positive has watched_episodes = total_episodes,
\* also after a PATCH that carries watched_episodes and no status.
C15_WatchedMeansAll ==
    \A e \in entries :
       (e.content_type = "series" /\ e.status = "watched" /\ e.total_episodes > 0)
       => e.watched_episodes = e.total_episodes

\* the status lines 128-135 derive from the counters
StatusFromCounters(e) ==
    IF e.watched_episodes >= e.total_episodes /\ e.total_episodes > 0
    THEN "watched"
    ELSE IF e.watched_episodes > 0 THEN "watching" ELSE "pending"

\* C16: every stored status, so also the one a successful update leaves, is
\* pending, watching or watched whatever status the payload carried; after a
\* successful update whose payload carried a status other than "watched" the
\* stored status is the one derived from the counters: watched if
\* watched_episodes >= total_episodes > 0, watching if watched_episodes > 0,
\* else pending.
C16_StatusRecomputed ==
    /\ \A e \in entries : e.status \in {"pending", "watching", "watched"}
    /\ (LastUpdateOk /\ last.payload.status.has /\ last.payload.status.v # "watched")
       => \A e \in LastEntries : e.status = StatusFromCounters(e)

\* a PATCH carrying only status "dropped" just left an entry watching
C16_Witness ==
    /\ LastUpdateOk
    /\ last.payload.status.has
    /\ last.payload.status.v = "dropped"
    /\ ~last.payload.watched_episodes.has
    /\ \E e \in LastEntries :
          /\ e.status = "watching"
          /\ e.watched_episodes < e.total_episodes

\* the stored entries that do not belong to user u
EntriesOfOthers(E, u) == {e \in E : e.user_id # u}

\* C17: add_movie, add_series and update_series_progress run for user u create
\* or modify only entries whose user_id is u and leave the entries of every
\* other user as they were; the list a GET for u answers holds exactly the
\* stored entries with user_id u, whatever other users have stored.
C17_UserIsolation ==
    [][ /\ (last'.op \in {"add_movie", "add_series", "update"} /\ last'.code # 401)
           => /\ EntriesOfOthers(entries', last'.user) = EntriesOfOthers(entries, last'.user)
              /\ \A e \in entries' \ entries : e.user_id = last'.user
        /\ (last'.op = "list" /\ last'.code = 200)
           => /\ \A d \in last'.body : d.user_id = last'.user
              /\ \A e \in entries : e.user_id = last'.user => to_dict(e) \in last'.body
              /\ Cardinality(last'.body) =
                    Cardinality(entries \ EntriesOfOthers(entries, last'.user))
              /\ entries' = entries
      ]_vars

\* a user with entries of its own has just listed them while another user
\* tracks the same series with a different status
C17_Witness ==
    /\ last.op = "list"
    /\ last.code = 200
    /\ last.body # {}
    /\ \E e \in entries, f \in entries :
          /\ e.user_id = last.user
          /\ f.user_id # last.user
          /\ e.content_type = "series"
          /\ f.content_type = "series"
          /\ e.content_id = f.content_id
          /\ e.status # f.status
====
